---- MODULE Spec2Model ----
(***************************************************************************)
(* ContextMap (src/src/lib.rs): two hash indices, links_to_registries and  *)
(* values_to_registries, over shared, reference-counted registries, and    *)
(* the insertion algorithm that generates a link-side and a value-side     *)
(* command from the unmodified map and then executes them.                 *)
(*                                                                         *)
(* Option<T> is a sequence of length at most one: None is <<>> and Some(t) *)
(* is <<t>>.  An Rc<RefCell<ContextRegistry>> is a handle into heap, the   *)
(* registries allocated so far; a registry is its BTreeMap records, a      *)
(* function from the contexts it holds to records.                         *)
(***************************************************************************)
EXTENDS Integers, Sequences, FiniteSets

\* Bounds of the model: links 1..NumLinks, values 1..NumValues, contexts 0..MaxContext.
NumLinks == 2
NumValues == 2
MaxContext == 1
\* The number of insert calls a run makes.
MaxInserts == 4
\* Bounds of the deeper specification SpecDeep: values 1..NumValuesDeep,
\* contexts 0..MaxContextDeep and MaxInsertsDeep insert calls, with the same links.
NumValuesDeep == 3
MaxContextDeep == 2
MaxInsertsDeep == 5

Links == 1..NumLinks
Values == 1..NumValues
Contexts == 0..MaxContext
ValuesDeep == 1..NumValuesDeep
ContextsDeep == 0..MaxContextDeep

VARIABLES
    heap,                  \* the registries allocated so far, by handle
    links_to_registries,   \* ContextMap.links_to_registries: link -> handle
    values_to_registries,  \* ContextMap.values_to_registries: value -> handle
    call,                  \* the arguments <<context, link, value>> of the last insert
    commands,              \* <<link command, value command>> the last insert generated, <<>> if none
    result,                \* what the last insert returned: "Ok", an InsertionError, or "Panic"
    inserts                \* the number of insert calls made so far

vars == <<heap, links_to_registries, values_to_registries, call, commands, result, inserts>>

----------------------------------------------------------------------------
\* Option<T>
None == <<>>
Some(x) == <<x>>

\* The greatest element of a non-empty set of contexts (BTreeMap key order).
MaxOf(S) == CHOOSE k \in S : \A j \in S : j <= k

\* InsertionError
OutdatedContext == "OutdatedContext"
OverwritingSome == "OverwritingSome"
NullifyingSome == "NullifyingSome"
InsertionError == {OutdatedContext, OverwritingSome, NullifyingSome}

\* A panic of expect()/unwrap() on an absent value.
Panic == "Panic"

----------------------------------------------------------------------------
\* ContextRecord

ContextRecord_new_some(context, link, value) ==
    [context |-> context, link |-> link, value |-> Some(value)]

ContextRecord_new_none(context, link) ==
    [context |-> context, link |-> link, value |-> None]

----------------------------------------------------------------------------
\* ContextRegistry: records is a function from a set of contexts to records.

\* BTreeMap::insert: adds the key, or replaces the record stored under it.
ContextRegistry_insert(records, context, record) ==
    [k \in (DOMAIN records) \cup {context} |->
        IF k = context THEN record ELSE records[k]]

\* The record with the greatest key <= context, if any.
ContextRegistry_query(records, context) ==
    LET upto == {k \in DOMAIN records : k <= context}
    IN  IF upto = {} THEN None ELSE Some(records[MaxOf(upto)])

\* Sets the value of the record stored at context (get_mut + assignment).
ContextRegistry_set_value(records, context, value) ==
    [records EXCEPT ![context] = [@ EXCEPT !.value = Some(value)]]

ContextRegistry_new(context, link, value) ==
    ContextRegistry_insert(<<>>, context, ContextRecord_new_some(context, link, value))

last_record(records) == records[MaxOf(DOMAIN records)]

ContextRegistry_context(records) == last_record(records).context

ContextRegistry_link(records) == last_record(records).link

ContextRegistry_value(records) == last_record(records).value

----------------------------------------------------------------------------
\* ContextMap, as a value: [heap, links, values].

ContextMap_new == [heap |-> <<>>, links |-> <<>>, values |-> <<>>]

\* HashMap::insert and HashMap::remove on an index.
HashMap_insert(index, key, handle) ==
    [k \in (DOMAIN index) \cup {key} |-> IF k = key THEN handle ELSE index[k]]

HashMap_remove(index, key) ==
    [k \in (DOMAIN index) \ {key} |-> index[k]]

query(m, context, link) ==
    IF link \in DOMAIN m.links
    THEN ContextRegistry_query(m.heap[m.links[link]], context)
    ELSE None

get_live_value(m, link) ==
    IF link \in DOMAIN m.links
    THEN ContextRegistry_value(m.heap[m.links[link]])
    ELSE None

get_live_link(m, value) ==
    IF value \in DOMAIN m.values
    THEN Some(ContextRegistry_link(m.heap[m.values[value]]))
    ELSE None

\* The place of an index entry's Rc handle: the reference HashMap::get returns
\* points into the table of the map it was called on.
SlotOfLink(m, link) == <<"links_to_registries", link>>

SlotOfValue(m, value) == <<"values_to_registries", value>>

\* std::ptr::eq on the two references: equality of the places referred to.
ptr_eq(link_registry, value_registry) == link_registry = value_registry

----------------------------------------------------------------------------
\* Command generation (reads the map, never writes it).

generate_link_insertion_command(m, context, link, value) ==
    IF /\ link \in DOMAIN m.links
       /\ value \in DOMAIN m.values
       /\ ptr_eq(SlotOfLink(m, link), SlotOfValue(m, value))
    THEN [tag |-> "Ok", command |-> [kind |-> "NoChange"]]
    ELSE IF link \notin DOMAIN m.links
    THEN [tag |-> "Ok",
          command |-> [kind |-> "NewLink", context |-> context, link |-> link, value |-> value]]
    ELSE LET linked_context == ContextRegistry_context(m.heap[m.links[link]])
         IN  IF context < linked_context
             THEN [tag |-> "Err", error |-> OutdatedContext]
             ELSE IF context = linked_context
             THEN [tag |-> "Ok",
                   command |-> [kind |-> "Overwrite", context |-> context,
                                link |-> link, value |-> value]]
             ELSE [tag |-> "Ok",
                   command |-> [kind |-> "Update", context |-> context,
                                link |-> link, value |-> value]]

\* generate_value_insertion_command with the Less and Equal arms of the match
\* merged: an earlier context is reported as NullifyingSome.
generate_value_insertion_command_merged_arms(m, context, link, value) ==
    IF value \notin DOMAIN m.values
    THEN [tag |-> "Ok", command |-> [kind |-> "AddValue", new_value |-> value]]
    ELSE LET existing_value_context == ContextRegistry_context(m.heap[m.values[value]])
         IN  IF context <= existing_value_context
             THEN [tag |-> "Err", error |-> NullifyingSome]
             ELSE IF get_live_value(m, link) = None
             THEN [tag |-> "Panic"]
             ELSE [tag |-> "Ok",
                   command |-> [kind |-> "RemoveExistingValueAddNewValue",
                                existing_value |-> get_live_value(m, link)[1],
                                new_context |-> context,
                                new_value |-> value]]

generate_value_insertion_command(m, context, link, value) ==
    IF value \notin DOMAIN m.values
    THEN [tag |-> "Ok", command |-> [kind |-> "AddValue", new_value |-> value]]
    ELSE LET existing_value_context == ContextRegistry_context(m.heap[m.values[value]])
         IN  IF context < existing_value_context
             THEN [tag |-> "Err", error |-> OutdatedContext]
             ELSE IF context = existing_value_context
             THEN [tag |-> "Err", error |-> NullifyingSome]
             ELSE IF get_live_value(m, link) = None
             THEN [tag |-> "Panic"]
             ELSE [tag |-> "Ok",
                   command |-> [kind |-> "RemoveExistingValueAddNewValue",
                                existing_value |-> get_live_value(m, link)[1],
                                new_context |-> context,
                                new_value |-> value]]

generate_insertion_commands(m, context, link, value) ==
    LET link_command == generate_link_insertion_command(m, context, link, value)
        value_command == generate_value_insertion_command(m, context, link, value)
    IN  IF link_command.tag # "Ok" THEN link_command
        ELSE IF value_command.tag # "Ok" THEN value_command
        ELSE [tag |-> "Ok", link_command |-> link_command.command,
              value_command |-> value_command.command]

----------------------------------------------------------------------------
\* Rc::new: the handle of a fresh allocation.  NewLink is the only place that
\* allocates, it runs only for a link that has no entry in links_to_registries,
\* and entries are never removed: the allocation made for a link is named by
\* that link, and no other allocation bears the name.
Rc_new(m, link) == link

\* Command execution (writes the map).  Each returns the map as the code
\* leaves it, also when it panics half way.

\* execute_link_insertion_command whose Update stores the new record under the
\* registry's latest context instead of the submitted one.
execute_link_insertion_command_update_in_place(m, command) ==
    IF command.kind = "NewLink"
    THEN LET new_registry == Rc_new(m, command.link)
         IN  [map |-> [m EXCEPT
                  !.heap = HashMap_insert(m.heap, new_registry,
                      ContextRegistry_new(command.context, command.link, command.value)),
                  !.links = HashMap_insert(m.links, command.link, new_registry)],
              new_registry |-> Some(new_registry),
              panicked |-> FALSE]
    ELSE IF command.kind = "Update"
    THEN IF command.link \notin DOMAIN m.links
         THEN [map |-> m, new_registry |-> None, panicked |-> TRUE]
         ELSE LET existing_registry == m.links[command.link]
                  new_record ==
                      ContextRecord_new_some(command.context, command.link, command.value)
              IN  [map |-> [m EXCEPT !.heap[existing_registry] =
                                ContextRegistry_insert(@, ContextRegistry_context(@), new_record)],
                   new_registry |-> Some(existing_registry),
                   panicked |-> FALSE]
    ELSE IF command.kind = "Overwrite"
    THEN IF \/ command.link \notin DOMAIN m.links
            \/ command.context \notin DOMAIN m.heap[m.links[command.link]]
         THEN [map |-> m, new_registry |-> None, panicked |-> TRUE]
         ELSE LET existing_registry == m.links[command.link]
              IN  [map |-> [m EXCEPT !.heap[existing_registry] =
                                ContextRegistry_set_value(@, command.context, command.value)],
                   new_registry |-> Some(existing_registry),
                   panicked |-> FALSE]
    ELSE [map |-> m, new_registry |-> None, panicked |-> FALSE]

execute_link_insertion_command(m, command) ==
    IF command.kind = "NewLink"
    THEN LET new_registry == Rc_new(m, command.link)
         IN  [map |-> [m EXCEPT
                  !.heap = HashMap_insert(m.heap, new_registry,
                      ContextRegistry_new(command.context, command.link, command.value)),
                  !.links = HashMap_insert(m.links, command.link, new_registry)],
              new_registry |-> Some(new_registry),
              panicked |-> FALSE]
    ELSE IF command.kind = "Update"
    THEN IF command.link \notin DOMAIN m.links
         THEN [map |-> m, new_registry |-> None, panicked |-> TRUE]
         ELSE LET existing_registry == m.links[command.link]
                  new_record ==
                      ContextRecord_new_some(command.context, command.link, command.value)
              IN  [map |-> [m EXCEPT !.heap[existing_registry] =
                                ContextRegistry_insert(@, command.context, new_record)],
                   new_registry |-> Some(existing_registry),
                   panicked |-> FALSE]
    ELSE IF command.kind = "Overwrite"
    THEN IF \/ command.link \notin DOMAIN m.links
            \/ command.context \notin DOMAIN m.heap[m.links[command.link]]
         THEN [map |-> m, new_registry |-> None, panicked |-> TRUE]
         ELSE LET existing_registry == m.links[command.link]
              IN  [map |-> [m EXCEPT !.heap[existing_registry] =
                                ContextRegistry_set_value(@, command.context, command.value)],
                   new_registry |-> Some(existing_registry),
                   panicked |-> FALSE]
    ELSE [map |-> m, new_registry |-> None, panicked |-> FALSE]

execute_value_insertion_command(m, command, new_registry) ==
    IF command.kind = "AddValue"
    THEN [map |-> [m EXCEPT !.values = HashMap_insert(m.values, command.new_value, new_registry)],
          panicked |-> FALSE]
    ELSE IF command.existing_value \notin DOMAIN m.values
    THEN [map |-> m, panicked |-> TRUE]
    ELSE LET existing_registry == m.values[command.existing_value]
             removed == HashMap_remove(m.values, command.existing_value)
             existing_link == ContextRegistry_link(m.heap[existing_registry])
             null_record == ContextRecord_new_none(command.new_context, existing_link)
         IN  [map |-> [m EXCEPT
                  !.heap[existing_registry] =
                      ContextRegistry_insert(@, command.new_context, null_record),
                  !.values = HashMap_insert(removed, command.new_value, new_registry)],
              panicked |-> FALSE]

execute_insertion_commands(m, link_command, value_command) ==
    LET linked == execute_link_insertion_command(m, link_command)
        valued == execute_value_insertion_command(linked.map, value_command,
                                                  linked.new_registry[1])
    IN  IF linked.panicked THEN [map |-> linked.map, result |-> Panic]
        ELSE IF linked.new_registry = None THEN [map |-> linked.map, result |-> "Ok"]
        ELSE IF valued.panicked THEN [map |-> valued.map, result |-> Panic]
        ELSE [map |-> valued.map, result |-> "Ok"]

\* insert_with_overwrite that executes the link command before it generates the
\* value command, so that a value-side error follows the link-side write.
insert_with_overwrite_interleaved(m, context, link, value) ==
    LET link_command == generate_link_insertion_command(m, context, link, value)
        linked == execute_link_insertion_command(m, link_command.command)
        value_command == generate_value_insertion_command(m, context, link, value)
        valued == execute_value_insertion_command(linked.map, value_command.command,
                                                  linked.new_registry[1])
    IN  IF link_command.tag = "Err"
        THEN [map |-> m, result |-> link_command.error, commands |-> <<>>]
        ELSE IF linked.panicked
        THEN [map |-> linked.map, result |-> Panic, commands |-> <<>>]
        ELSE IF linked.new_registry = None
        THEN [map |-> linked.map, result |-> "Ok",
              commands |-> <<link_command.command.kind, "AddValue">>]
        ELSE IF value_command.tag = "Err"
        THEN [map |-> linked.map, result |-> value_command.error, commands |-> <<>>]
        ELSE IF value_command.tag = "Panic" \/ valued.panicked
        THEN [map |-> linked.map, result |-> Panic, commands |-> <<>>]
        ELSE [map |-> valued.map, result |-> "Ok",
              commands |-> <<link_command.command.kind, value_command.command.kind>>]

insert_with_overwrite(m, context, link, value) ==
    LET generated == generate_insertion_commands(m, context, link, value)
    IN  IF generated.tag = "Err"
        THEN [map |-> m, result |-> generated.error, commands |-> <<>>]
        ELSE IF generated.tag = "Panic"
        THEN [map |-> m, result |-> Panic, commands |-> <<>>]
        ELSE LET executed == execute_insertion_commands(m, generated.link_command,
                                                        generated.value_command)
             IN  [map |-> executed.map, result |-> executed.result,
                  commands |-> <<generated.link_command.kind, generated.value_command.kind>>]

insert(m, context, link, value) == insert_with_overwrite(m, context, link, value)

----------------------------------------------------------------------------
\* The state machine: a ContextMap that starts empty and receives insert calls.
\* A panic ends the run.

Map == [heap |-> heap, links |-> links_to_registries, values |-> values_to_registries]

Init ==
    /\ heap = ContextMap_new.heap
    /\ links_to_registries = ContextMap_new.links
    /\ values_to_registries = ContextMap_new.values
    /\ call = <<>>
    /\ commands = <<>>
    /\ result = "Init"
    /\ inserts = 0

Insert(context, link, value) ==
    /\ result # Panic
    /\ inserts < MaxInserts
    /\ inserts' = inserts + 1
    /\ \E returned \in {insert(Map, context, link, value)} :
           /\ heap' = returned.map.heap
           /\ links_to_registries' = returned.map.links
           /\ values_to_registries' = returned.map.values
           /\ commands' = returned.commands
           /\ result' = returned.result
    /\ call' = <<context, link, value>>

Next == \E context \in Contexts, link \in Links, value \in Values : Insert(context, link, value)

Spec == Init /\ [][Next]_vars

\* The same machine with one more value, one more context and one more call:
\* the shortest runs in which an insert writes into a registry that is neither
\* the link's own nor the one indexed under the value need three values, three
\* contexts and five calls.
InsertDeep(context, link, value) ==
    /\ result # Panic
    /\ inserts < MaxInsertsDeep
    /\ inserts' = inserts + 1
    /\ \E returned \in {insert(Map, context, link, value)} :
           /\ heap' = returned.map.heap
           /\ links_to_registries' = returned.map.links
           /\ values_to_registries' = returned.map.values
           /\ commands' = returned.commands
           /\ result' = returned.result
    /\ call' = <<context, link, value>>

NextDeep ==
    \E context \in ContextsDeep, link \in Links, value \in ValuesDeep :
        InsertDeep(context, link, value)

SpecDeep == Init /\ [][NextDeep]_vars

----------------------------------------------------------------------------
\* Properties of the map.

\* The map after the step, and the arguments of the insert the step performs.
MapNext == [heap |-> heap', links |-> links_to_registries', values |-> values_to_registries']
MapUnchanged == MapNext = Map

\* The value of the record query returns: None when there is no record, else
\* Some of the record's Option<V>.
queried_value(m, context, link) ==
    IF query(m, context, link) = None THEN None ELSE Some(query(m, context, link)[1].value)

\* C1: in every reachable state, get_live_value(L) = Some(V) exactly when
\* get_live_link(V) = Some(L), for every link L and value V.
C1_Bijection ==
    \A link \in Links, value \in Values :
        (get_live_value(Map, link) = Some(value)) <=> (get_live_link(Map, value) = Some(link))

\* C2: an insert that returns an InsertionError leaves both indices and every
\* registry as they were before the call.
C2_AllOrNothing == [][result' \in InsertionError => MapUnchanged]_vars

\* C2 witness: an insert whose link side would create a registry was rejected
\* on the value side, and the link still has no registry.
C2_Witness ==
    /\ result = NullifyingSome
    /\ call[2] \notin DOMAIN links_to_registries
    /\ call[3] \in DOMAIN values_to_registries

\* C3: after an insert(c, L, V) that returned Ok, query(c, L) is a record with
\* value Some(V), get_live_value(L) = Some(V) and get_live_link(V) = Some(L).
C3_PostInsertAssociation ==
    result = "Ok" =>
        /\ queried_value(Map, call[1], call[2]) = Some(Some(call[3]))
        /\ get_live_value(Map, call[2]) = Some(call[3])
        /\ get_live_link(Map, call[3]) = Some(call[2])

\* C4: when V is indexed under the registry of a link A other than L, the
\* context is later than that registry's latest and the link side yields no
\* error, insert(c, L, V) returns Ok, stores (c, A, None) in A's registry so
\* that query(c', A) is None-valued for every c' >= c, and indexes V under L's
\* registry.
C4_NullifyThenRepoint ==
    [][\A holder \in Links :
        ( /\ call'[3] \in DOMAIN values_to_registries
          /\ holder \in DOMAIN links_to_registries
          /\ holder # call'[2]
          /\ values_to_registries[call'[3]] = links_to_registries[holder]
          /\ call'[1] > ContextRegistry_context(heap[links_to_registries[holder]])
          /\ generate_link_insertion_command(Map, call'[1], call'[2], call'[3]).tag = "Ok" )
        => /\ result' = "Ok"
           /\ call'[1] \in DOMAIN heap'[links_to_registries[holder]]
           /\ heap'[links_to_registries[holder]][call'[1]]
                  = ContextRecord_new_none(call'[1], holder)
           /\ \A later \in Contexts :
                  later >= call'[1] => queried_value(MapNext, later, holder) = Some(None)
           /\ call'[2] \in DOMAIN links_to_registries'
           /\ values_to_registries'[call'[3]] = links_to_registries'[call'[2]]
      ]_vars

\* C5: an insert with a context later than K, the latest context of L's
\* registry now or at any earlier time (the contexts the registry holds), leaves
\* query(c', L) as it was for every c' <= K.
C5_TimeTravelStability ==
    [][\A link \in DOMAIN links_to_registries :
        \A recorded \in DOMAIN heap[links_to_registries[link]] :
            call'[1] > recorded
            => \A earlier \in Contexts :
                   earlier <= recorded
                   => query(MapNext, earlier, link) = query(Map, earlier, link)
      ]_vars

\* C5 witness: an insert that updated L and repointed V wrote at its context
\* into L's registry, which holds an earlier record.
C5_Witness ==
    /\ result = "Ok"
    /\ commands = <<"Update", "RemoveExistingValueAddNewValue">>
    /\ call[1] \in DOMAIN heap[links_to_registries[call[2]]]
    /\ \E earlier \in DOMAIN heap[links_to_registries[call[2]]] : earlier < call[1]

C7_DestructiveSameContextRejected ==
    [][( /\ call'[2] \in DOMAIN links_to_registries
         /\ ContextRegistry_context(heap[links_to_registries[call'[2]]]) = call'[1]
         /\ ContextRegistry_value(heap[links_to_registries[call'[2]]]) # None
         /\ ContextRegistry_value(heap[links_to_registries[call'[2]]]) # Some(call'[3]) )
       => /\ result' = OverwritingSome
          /\ heap'[links_to_registries[call'[2]]][call'[1]]
                 = heap[links_to_registries[call'[2]]][call'[1]]
      ]_vars

\* C8: whenever L and V are indexed under the same registry, insert on (L, V)
\* generates NoChange, returns Ok and changes nothing; in particular so does
\* repeating an insert(c, L, V) that succeeded and is still the live association.
C8_NoOpIdempotence ==
    [][( /\ call'[2] \in DOMAIN links_to_registries
         /\ call'[3] \in DOMAIN values_to_registries
         /\ links_to_registries[call'[2]] = values_to_registries[call'[3]] )
       => (result' = "Ok" /\ commands'[1] = "NoChange" /\ MapUnchanged)
      ]_vars

\* C9: in every reachable state, for every context c and value V at most one
\* link L has query(c, L) with value Some(V).
C9_PartialBijectionAtEveryContext ==
    \A context \in Contexts, value \in Values :
        Cardinality({link \in Links :
            queried_value(Map, context, link) = Some(Some(value))}) <= 1

\* C10: when L has no registry and V is indexed under a registry whose latest
\* context is less than c, insert(c, L, V) returns Ok, creates L's registry
\* seeded with (c, L, Some(V)), stores a None-valued record at c in the registry
\* V was indexed under, and get_live_link(V) = Some(L) afterwards.
C10_NewLinkClaimsHeldValue ==
    [][( /\ call'[2] \notin DOMAIN links_to_registries
         /\ call'[3] \in DOMAIN values_to_registries
         /\ ContextRegistry_context(heap[values_to_registries[call'[3]]]) < call'[1] )
       => /\ result' = "Ok"
          /\ call'[2] \in DOMAIN links_to_registries'
          /\ heap'[links_to_registries'[call'[2]]]
                 = ContextRegistry_new(call'[1], call'[2], call'[3])
          /\ call'[1] \in DOMAIN heap'[values_to_registries[call'[3]]]
          /\ heap'[values_to_registries[call'[3]]][call'[1]].value = None
          /\ get_live_link(MapNext, call'[3]) = Some(call'[2])
      ]_vars

\* C11: when V is indexed under a registry other than L's whose latest context
\* equals c and the link side yields no error, insert(c, L, V) returns
\* NullifyingSome and leaves the map unchanged, and the latest record of the
\* registry indexed under V is Some-valued.
C11_SameContextNullificationRejected ==
    [][( /\ call'[3] \in DOMAIN values_to_registries
         /\ \/ call'[2] \notin DOMAIN links_to_registries
            \/ links_to_registries[call'[2]] # values_to_registries[call'[3]]
         /\ ContextRegistry_context(heap[values_to_registries[call'[3]]]) = call'[1]
         /\ generate_link_insertion_command(Map, call'[1], call'[2], call'[3]).tag = "Ok" )
       => /\ result' = NullifyingSome
          /\ MapUnchanged
          /\ ContextRegistry_value(heap[values_to_registries[call'[3]]]) # None
      ]_vars

\* C12: an insert(c, L, V) that is applied as Overwrite finds the latest record
\* of L's registry at context c with value None, sets that record's value to
\* Some(V) without adding a record, and indexes V under L's registry.
C12_OverwriteOnlyFillsTombstone ==
    [][( /\ result' = "Ok"
         /\ commands'[1] = "Overwrite" )
       => /\ call'[2] \in DOMAIN links_to_registries
          /\ ContextRegistry_context(heap[links_to_registries[call'[2]]]) = call'[1]
          /\ ContextRegistry_value(heap[links_to_registries[call'[2]]]) = None
          /\ DOMAIN heap'[links_to_registries[call'[2]]]
                 = DOMAIN heap[links_to_registries[call'[2]]]
          /\ heap'[links_to_registries[call'[2]]][call'[1]].value = Some(call'[3])
          /\ call'[3] \in DOMAIN values_to_registries'
          /\ values_to_registries'[call'[3]] = links_to_registries[call'[2]]
      ]_vars

\* C13: every record an insert stores in a registry that existed before the
\* call (a record added, or stored in place of another) is stored under a
\* context not less than any context the registry already held.
C13_ChronologicalAppendOrder ==
    [][\A registry \in DOMAIN heap :
        \A written \in DOMAIN heap'[registry] :
            ( \/ written \notin DOMAIN heap[registry]
              \/ heap'[registry][written] # heap[registry][written] )
            => \A held \in DOMAIN heap[registry] : written >= held
      ]_vars

\* C14: an insert(c, L, V) changes the records of no registry other than L's
\* own and the one indexed under V before the call, so query(c', M) is as it
\* was for every link M whose registry is neither.
C14_InsertFrame ==
    [][\A registry \in DOMAIN heap :
        heap'[registry] # heap[registry]
        => \/ /\ call'[2] \in DOMAIN links_to_registries
              /\ registry = links_to_registries[call'[2]]
           \/ /\ call'[3] \in DOMAIN values_to_registries
              /\ registry = values_to_registries[call'[3]]
      ]_vars

\* C15: in every reachable state, each registry reachable from
\* links_to_registries or values_to_registries is non-empty and holds at least
\* one record whose value is Some.
C15_RegistryKeepsSomeRecord ==
    \A registry \in {links_to_registries[link] : link \in DOMAIN links_to_registries}
                    \cup {values_to_registries[value] : value \in DOMAIN values_to_registries} :
        \E context \in DOMAIN heap[registry] : heap[registry][context].value # None

\* C16: no insert panics: every call returns Ok or an InsertionError.
C16_InsertNeverAborts == result # Panic

====
